---- MODULE Spec2Model ----
(***************************************************************************)
(* The BPIO2 example exchange of rust/bpio2/examples/i2c.rs: a             *)
(* ConfigurationRequest transaction followed by a DataRequest transaction  *)
(* over a serial byte stream, each request COBS-framed and each response   *)
(* COBS-decoded incrementally, parsed and classified.                      *)
(*                                                                         *)
(* Bytes are scaled down from 0..255 to 0..MaxByte, and with them the COBS *)
(* code 0xFF ("MaxByte - 1 data bytes follow, no implied zero").  The      *)
(* decode buffer (256 bytes) is scaled down to DecodeBufferLen, and the    *)
(* per-read buffer (128 bytes) is half of it, as in the source.            *)
(***************************************************************************)
EXTENDS Naturals, Sequences, FiniteSets

\* ------------------------------------------------------------------ bounds

\* Largest byte value; stands for 0xFF.
MaxByte == 3

\* Length of decode_buffer ([0u8; 256] in the source).
DecodeBufferLen == 4

\* Length of per_read_buffer ([0u8; 128] in the source: half the decode
\* buffer).
PerReadBufferLen == DecodeBufferLen \div 2

\* Framing round trip: longest payload, and the capacity of its decoder.
MaxPayloadLen == 5

Byte == 0..MaxByte

\* Option<T> as a sequence of at most one element.
None == <<>>

Some(v) == <<v>>

\* All sequences over S of length 0..n.
SeqUpTo(S, n) == UNION {[1..k -> S] : k \in 0..n}

\* ------------------------------------------------------------ Byte Framer

\* cobs::encode_vec: consistent-overhead byte stuffing of a whole payload.
\* A code byte c < MaxByte announces c-1 data bytes followed by an implied
\* zero (or by the end of the frame); the code MaxByte announces MaxByte-1
\* data bytes followed by another code byte.  `block` is the run of nonzero
\* bytes not yet flushed behind its code byte.
RECURSIVE encode_from(_, _, _, _)
encode_from(payload, i, out, block) ==
    IF i > Len(payload)
    THEN out \o <<Len(block) + 1>> \o block
    ELSE LET b == payload[i] IN
         IF b = 0
         THEN encode_from(payload, i + 1, out \o <<Len(block) + 1>> \o block, <<>>)
         ELSE IF Len(block) + 2 = MaxByte
              THEN encode_from(payload, i + 1,
                               out \o <<MaxByte>> \o block \o <<b>>, <<>>)
              ELSE encode_from(payload, i + 1, out, block \o <<b>>)

encode_vec(payload) == encode_from(payload, 1, <<>>, <<>>)

\* DecoderState of the incremental decoder.
Idle == [tag |-> "Idle", n |-> 0]

Grab(n) == [tag |-> "Grab", n |-> n]

GrabChain(n) == [tag |-> "GrabChain", n |-> n]

\* CobsDecoder::new(&mut decode_buffer): an empty destination of the
\* buffer's length, state machine idle.
CobsDecoder_new(cap) == [dest |-> <<>>, state |-> Idle, cap |-> cap]

\* Result of one step of the decoder state machine.
\*   NoData, DataStart, DataContinue(v), DataComplete, InvalidFrame
Step(kind, v, st) == [kind |-> kind, v |-> v, state |-> st]

\* DecoderState::feed: one raw byte through the state machine.
state_feed(st, b) ==
    IF st.tag = "Idle" THEN
         IF b = 0 THEN Step("NoData", 0, Idle)
         ELSE IF b = MaxByte THEN Step("DataStart", 0, GrabChain(MaxByte - 1))
         ELSE Step("DataStart", 0, Grab(b - 1))
    ELSE IF st.tag = "Grab" THEN
         IF st.n = 0 THEN
              IF b = 0 THEN Step("DataComplete", 0, Idle)
              ELSE IF b = MaxByte THEN Step("DataContinue", 0, GrabChain(MaxByte - 1))
              ELSE Step("DataContinue", 0, Grab(b - 1))
         ELSE IF b = 0 THEN Step("InvalidFrame", 0, Idle)
              ELSE Step("DataContinue", b, Grab(st.n - 1))
    ELSE \* GrabChain
         IF st.n = 0 THEN
              IF b = 0 THEN Step("DataComplete", 0, Idle)
              ELSE IF b = MaxByte THEN Step("NoData", 0, GrabChain(MaxByte - 1))
              ELSE Step("NoData", 0, Grab(b - 1))
         ELSE IF b = 0 THEN Step("InvalidFrame", 0, Idle)
              ELSE Step("DataContinue", b, GrabChain(st.n - 1))

\* Result of feeding the decoder: the decoder afterwards and
\*   res = "None"  more data needed
\*   res = "Some"  a frame is complete, parsed_size decoded bytes in dest
\*   res = "Err"   framing error (invalid frame, or destination too small)
Fed(dec, res, used) ==
    [decoder |-> dec, res |-> res, parsed_size |-> Len(dec.dest), used |-> used]

\* CobsDecoder::feed: one raw byte, writing a decoded byte into dest.
feed(dec, b) ==
    LET s == state_feed(dec.state, b) IN
    CASE s.kind = "InvalidFrame" ->
             Fed([dec EXCEPT !.state = s.state], "Err", 0)
      [] s.kind = "NoData" ->
             Fed([dec EXCEPT !.state = s.state], "None", 0)
      [] s.kind = "DataStart" ->
             Fed([dec EXCEPT !.state = s.state, !.dest = <<>>], "None", 0)
      [] s.kind = "DataContinue" ->
             IF Len(dec.dest) >= dec.cap
             THEN Fed([dec EXCEPT !.state = s.state], "Err", 0)
             ELSE Fed([dec EXCEPT !.state = s.state, !.dest = Append(@, s.v)],
                      "None", 0)
      [] s.kind = "DataComplete" ->
             Fed([dec EXCEPT !.state = s.state], "Some", 0)

\* CobsDecoder::push: the bytes of one chunk in order; returns at the first
\* completed frame or error, leaving the rest of the chunk unconsumed.
\* `used` is the number of bytes of the chunk consumed.
RECURSIVE push_from(_, _, _)
push_from(dec, chunk, i) ==
    IF i > Len(chunk)
    THEN Fed(dec, "None", Len(chunk))
    ELSE LET r == feed(dec, chunk[i]) IN
         IF r.res = "None"
         THEN push_from(r.decoder, chunk, i + 1)
         ELSE Fed(r.decoder, r.res, i)

push(dec, chunk) == push_from(dec, chunk, 1)

\* Mutant: the terminator is never pushed behind the encoded bytes.
frame_of_NoTerminator(flatbuffer_bytes) == encode_vec(flatbuffer_bytes)

\* Mutant: the serialized bytes are terminated but not COBS-encoded.
frame_of_Unstuffed(flatbuffer_bytes) == Append(flatbuffer_bytes, 0)

\* The bytes handed to the transport for one serialized request:
\* cobs::encode_vec, then cobs_encoded.push(0x00).
frame_of(flatbuffer_bytes) == Append(encode_vec(flatbuffer_bytes), 0)

\* ---------------------------------------------------------- Message Codec

\* RequestPacketContents discriminants.
RequestPacketContents_ConfigurationRequest == 2

RequestPacketContents_DataRequest == 3

\* ResponsePacketContents discriminants; every other value of the
\* discriminant byte names no response kind.
ResponsePacketContents_ErrorResponse == 1

ResponsePacketContents_ConfigurationResponse == 2

ResponsePacketContents_DataResponse == 3

\* The request packet of the configuration transaction: version 2.0, the
\* ConfigurationRequest discriminant and the ConfigurationRequest table
\* (psu_enable, pullup_enable, clock_stretch shown; the mode name, speed and
\* PSU settings do not bear on framing or classification).
configuration_request_packet ==
    [version_major |-> 2, version_minor |-> 0,
     contents_type |-> RequestPacketContents_ConfigurationRequest,
     contents      |-> [kind |-> "ConfigurationRequest", fields |-> <<1, 1, 0>>]]

\* Mutant: the data request packet is given the discriminant of the
\* configuration request.
data_request_packet_WrongDiscriminant ==
    [version_major |-> 2, version_minor |-> 0,
     contents_type |-> RequestPacketContents_ConfigurationRequest,
     contents      |-> [kind |-> "DataRequest", fields |-> <<1, 1, 8, 160, 16>>]]

\* The request packet of the data transaction: version 2.0, the DataRequest
\* discriminant and the DataRequest table (start_main, stop_main,
\* bytes_read = 8, data_write = [0xA0, 0x10]).
data_request_packet ==
    [version_major |-> 2, version_minor |-> 0,
     contents_type |-> RequestPacketContents_DataRequest,
     contents      |-> [kind |-> "DataRequest", fields |-> <<1, 1, 8, 160, 16>>]]

\* Serialization of a request packet into the builder's buffer: the bytes
\* are appended behind whatever the buffer already holds.
fbb_finish(buffer, packet) ==
    buffer \o <<packet.version_major, packet.version_minor, packet.contents_type>>
           \o packet.contents.fields

\* FlatBufferBuilder::reset: the buffer is emptied for re-use.
fbb_reset(buffer) == <<>>

\* A table of a response union: an optional error string (named by a
\* nonzero byte) and, for a DataResponse, an optional data_read vector.
Contents(error, data_read) == [error |-> error, data_read |-> data_read]

ResponsePacket(t, contents) == [ok |-> TRUE, contents_type |-> t, contents |-> contents]

DecodeError == [ok |-> FALSE, contents_type |-> 0, contents |-> None]

\* bpio2::root_as_response_packet: parse and verify the decoded bytes.
\*   byte 1      the discriminant contents_type
\*   byte 2      the union slot: absent when the buffer ends before it;
\*               0 = table without an error field, e > 0 = error string e
\*   bytes 3..   (DataResponse) the data_read vector, absent when the
\*               buffer ends before it
\* Rejected: an empty buffer (truncated), an unrecognized discriminant, a
\* discriminant without its union slot, and bytes behind the table of an
\* ErrorResponse or ConfigurationResponse.
root_as_response_packet(bytes) ==
    IF Len(bytes) = 0 THEN DecodeError
    ELSE LET t == bytes[1] IN
         IF t \notin {ResponsePacketContents_ErrorResponse,
                      ResponsePacketContents_ConfigurationResponse,
                      ResponsePacketContents_DataResponse}
         THEN DecodeError
         ELSE IF Len(bytes) < 2 THEN DecodeError
         ELSE LET error == IF bytes[2] = 0 THEN None ELSE Some(bytes[2]) IN
              IF t = ResponsePacketContents_DataResponse
              THEN ResponsePacket(t, Some(Contents(error,
                       IF Len(bytes) = 2 THEN None
                       ELSE Some(SubSeq(bytes, 3, Len(bytes))))))
              ELSE IF Len(bytes) = 2
                   THEN ResponsePacket(t, Some(Contents(error, None)))
                   ELSE DecodeError

\* ResponsePacket::contents_as_<variant>(): the table when the discriminant
\* names the variant and the union slot is present.
contents_as(response, variant) ==
    IF response.contents_type = variant THEN response.contents ELSE None

\* ----------------------------------------------------- Transaction Engine

VARIABLES
    pc,             \* position of main()
    fbb,            \* the FlatBufferBuilder's buffer
    cobs_encoded,   \* the framed request about to be written
    written,        \* the buffers handed to serial_port.write_all, in order
    buf,            \* inside write_all: the bytes the transport has not
                    \* accepted yet; empty outside of it
    decoder,        \* the CobsDecoder of the current receive loop
    bytes_read,     \* what the last serial_port.read returned
    decode_state,   \* what the last decoder.push returned: None, Some or Err
    decoded_bytes,  \* the slice the receive loop broke with
    frames,         \* how many completed frames the decoders have reported
    encoded,        \* what the bytes pushed so far encode: a decoder that
                    \* is never short of room, fed the same bytes
    dropped,        \* the bytes of its last chunk that the receive loop
                    \* left unpushed when it broke
    response,       \* per transaction, the parsed ResponsePacket
    outcome,        \* per transaction, how it ended
    rt              \* the framing round-trip harness (RoundTripSpec only)

vars == <<pc, fbb, cobs_encoded, written, buf, decoder, bytes_read, decode_state,
          decoded_bytes, frames, encoded, dropped, response, outcome, rt>>

Configuration == "configuration"

Data == "data"

Pending == [status |-> "pending", msg |-> "", detail |-> None, data |-> None]

\* A transaction that passed its checks; for the data transaction `data`
\* holds bytes_read_from_eeprom.
Success(data) == [status |-> "ok", msg |-> "", detail |-> None, data |-> data]

\* panic!/expect/unwrap: the process ends with the message and the value
\* formatted into it.
Panic(msg, detail) == [status |-> "panic", msg |-> msg, detail |-> detail, data |-> None]

\* decoder.dest(): the whole destination buffer, zero where nothing was
\* written yet.
dest(dec) == dec.dest \o [i \in 1..(dec.cap - Len(dec.dest)) |-> 0]

\* Mutant: the configuration check takes the absence of an embedded error
\* as success whatever response kind came back.
ClassifyConfiguration_AnyKind(resp) ==
    IF resp.contents_type = ResponsePacketContents_ErrorResponse
    THEN Panic("Received error response from BusPirate", resp.contents[1].error)
    ELSE IF resp.contents[1].error # None
         THEN Panic("Configuration response error", resp.contents[1].error)
         ELSE Success(None)

\* Mutant: the configuration check never looks at the embedded error.
ClassifyConfiguration_ErrorIgnored(resp) ==
    IF resp.contents_type = ResponsePacketContents_ErrorResponse
    THEN Panic("Received error response from BusPirate", resp.contents[1].error)
    ELSE IF resp.contents_type = ResponsePacketContents_ConfigurationResponse
    THEN Success(None)
    ELSE Panic("Unexpected response contents type", Some(resp.contents_type))

\* The match on response.contents_type() after the configuration request.
ClassifyConfiguration(resp) ==
    IF resp.contents_type = ResponsePacketContents_ErrorResponse
    THEN LET contents == contents_as(resp, ResponsePacketContents_ErrorResponse) IN
         IF contents = None
         THEN Panic("called Option::unwrap() on a None value", None)
         ELSE Panic("Received error response from BusPirate", contents[1].error)
    ELSE IF resp.contents_type = ResponsePacketContents_ConfigurationResponse
    THEN LET contents == contents_as(resp, ResponsePacketContents_ConfigurationResponse) IN
         IF contents = None
         THEN Panic("called Option::unwrap() on a None value", None)
         ELSE IF contents[1].error # None
              THEN Panic("Configuration response error", contents[1].error)
              ELSE Success(None)
    ELSE Panic("Unexpected response contents type", Some(resp.contents_type))

\* Mutant: the data check has no ErrorResponse arm, so an ErrorResponse
\* falls into the catch-all arm.
ClassifyData_NoErrorArm(resp) ==
    IF resp.contents_type = ResponsePacketContents_DataResponse
    THEN IF resp.contents[1].error # None
         THEN Panic("Configuration response error", resp.contents[1].error)
         ELSE IF resp.contents[1].data_read = None
              THEN Panic("called Option::unwrap() on a None value", None)
              ELSE Success(Some(resp.contents[1].data_read[1]))
    ELSE Panic("Unexpected response contents type", Some(resp.contents_type))

\* The match on response.contents_type() after the data request.
ClassifyData(resp) ==
    IF resp.contents_type = ResponsePacketContents_ErrorResponse
    THEN LET contents == contents_as(resp, ResponsePacketContents_ErrorResponse) IN
         IF contents = None
         THEN Panic("called Option::unwrap() on a None value", None)
         ELSE Panic("Received error response from BusPirate", contents[1].error)
    ELSE IF resp.contents_type = ResponsePacketContents_DataResponse
    THEN LET contents == contents_as(resp, ResponsePacketContents_DataResponse) IN
         IF contents = None
         THEN Panic("called Option::unwrap() on a None value", None)
         ELSE IF contents[1].error # None
              THEN Panic("Configuration response error", contents[1].error)
              ELSE IF contents[1].data_read = None
                   THEN Panic("called Option::unwrap() on a None value", None)
                   ELSE Success(Some(contents[1].data_read[1]))
    ELSE Panic("Unexpected response contents type", Some(resp.contents_type))

\* The round-trip harness at rest.
RoundTripOff ==
    [phase |-> "off", payload |-> <<>>, size |-> 0, frame |-> <<>>, pos |-> 0,
     decoder |-> CobsDecoder_new(MaxPayloadLen), reports |-> 0, failed |-> FALSE,
     report_at |-> 0, parsed_size |-> 0, parsed |-> <<>>]

Init ==
    /\ pc = "build_configuration"
    /\ fbb = <<>>
    /\ cobs_encoded = <<>>
    /\ written = <<>>
    /\ buf = <<>>
    /\ dropped = <<>>
    /\ decoder = CobsDecoder_new(DecodeBufferLen)
    /\ bytes_read = 0
    /\ decode_state = "None"
    /\ decoded_bytes = <<>>
    /\ frames = 0
    /\ encoded = CobsDecoder_new(DecodeBufferLen + 1)
    /\ response = [t \in {Configuration, Data} |-> DecodeError]
    /\ outcome = [t \in {Configuration, Data} |-> Pending]
    /\ rt = RoundTripOff

\* Lines 24-85: build the ConfigurationRequest packet, finish it, COBS-encode
\* it and push the terminator.
BuildConfigurationRequest ==
    /\ pc = "build_configuration"
    /\ fbb' = fbb_finish(fbb, configuration_request_packet)
    /\ cobs_encoded' = frame_of(fbb')
    /\ pc' = "write_configuration"
    /\ UNCHANGED <<buf, dropped, written, decoder, bytes_read, decode_state, decoded_bytes, frames, encoded, response,
                   outcome, rt>>

\* serial_port.write_all(&cobs_encoded).expect(..), then the fresh decode
\* buffer and decoder of the receive loop that follows.  write_all is the
\* provided method of std::io::Write: it calls the port's write with the
\* bytes not yet accepted until none is left; a write that accepts n >= 1
\* bytes is followed by a write of the rest, a write that accepts none or
\* fails with an error other than Interrupted ends write_all with the
\* error, which expect turns into a panic.  A step is one call of write.
WriteAll(t, receive_pc) ==
    LET rest == IF buf = <<>> THEN cobs_encoded ELSE buf IN
    /\ written' = IF buf = <<>> THEN Append(written, cobs_encoded) ELSE written
    /\ \/ \E n \in 1..Len(rest) :
             IF n = Len(rest)
             THEN /\ buf' = <<>>
                  /\ pc' = receive_pc
                  /\ decoder' = CobsDecoder_new(DecodeBufferLen)
                  /\ bytes_read' = 0
                  /\ decode_state' = "None"
                  /\ encoded' = CobsDecoder_new(DecodeBufferLen + 1)
                  /\ dropped' = <<>>
                  /\ UNCHANGED outcome
             ELSE /\ buf' = SubSeq(rest, n + 1, Len(rest))
                  /\ UNCHANGED <<pc, decoder, bytes_read, decode_state, encoded,
                                 dropped, outcome>>
       \/ /\ pc' = "panicked"
          /\ outcome' = [outcome EXCEPT ![t] =
                            Panic("Failed to write configuration packet.", None)]
          /\ UNCHANGED <<buf, dropped, decoder, bytes_read, decode_state, encoded>>
    /\ UNCHANGED <<fbb, cobs_encoded, decoded_bytes, frames, response, rt>>

\* Mutant: a failed read is swallowed and the loop goes round again.
ReadFails_Retried(t) ==
    /\ bytes_read' = 0
    /\ UNCHANGED <<buf, dropped, pc, fbb, cobs_encoded, written, decoder, decode_state,
                   decoded_bytes, frames, encoded, response, outcome, rt>>

\* Mutant: the failed read panics with the message of the decoding error.
ReadFails_DecodingMessage(t) ==
    /\ pc' = "panicked"
    /\ outcome' = [outcome EXCEPT ![t] = Panic("COBS-decoding error.", None)]
    /\ UNCHANGED <<buf, dropped, fbb, cobs_encoded, written, decoder, bytes_read, decode_state,
                   decoded_bytes, frames, encoded, response, rt>>

\* An iteration of the receive loop whose serial_port.read fails (timeout
\* or I/O error): expect() panics.
ReadFails(t) ==
    /\ pc' = "panicked"
    /\ outcome' = [outcome EXCEPT ![t] =
                      Panic("Failed to read from the serial port.", None)]
    /\ UNCHANGED <<buf, dropped, fbb, cobs_encoded, written, decoder, bytes_read, decode_state,
                   decoded_bytes, frames, encoded, response, rt>>

\* Mutant: the decode buffer and decoder are created inside the loop, so
\* every read starts a fresh frame.
ReadPushes_FreshDecoder(t, check_pc) ==
    \E chunk \in SeqUpTo(Byte, PerReadBufferLen) :
       LET pushed == push(CobsDecoder_new(DecodeBufferLen), chunk) IN
       /\ bytes_read' = Len(chunk)
       /\ decoder' = pushed.decoder
       /\ decode_state' = pushed.res
       /\ encoded' = push(encoded, SubSeq(chunk, 1, pushed.used)).decoder
       /\ CASE pushed.res = "Err" ->
                  /\ pc' = "panicked"
                  /\ outcome' = [outcome EXCEPT ![t] =
                                    Panic("COBS-decoding error.", None)]
                  /\ UNCHANGED <<decoded_bytes, frames, dropped>>
            [] pushed.res = "None" ->
                  UNCHANGED <<pc, outcome, decoded_bytes, frames, dropped>>
            [] pushed.res = "Some" ->
                  /\ pc' = check_pc
                  /\ decoded_bytes' = SubSeq(dest(decoder'), 1, pushed.parsed_size)
                  /\ dropped' = SubSeq(chunk, pushed.used + 1, Len(chunk))
                  /\ frames' = frames + 1
                  /\ UNCHANGED outcome
       /\ UNCHANGED <<buf, fbb, cobs_encoded, written, response, rt>>

\* Mutant: a decoding error ends the loop like a completed frame, with the
\* bytes decoded up to the error.
ReadPushes_ErrorBreaks(t, check_pc) ==
    \E chunk \in SeqUpTo(Byte, PerReadBufferLen) :
       LET pushed == push(decoder, chunk) IN
       /\ bytes_read' = Len(chunk)
       /\ decoder' = pushed.decoder
       /\ decode_state' = pushed.res
       /\ encoded' = push(encoded, SubSeq(chunk, 1, pushed.used)).decoder
       /\ CASE pushed.res = "None" ->
                  UNCHANGED <<pc, outcome, decoded_bytes, frames, dropped>>
            [] OTHER ->
                  /\ pc' = check_pc
                  /\ dropped' = SubSeq(chunk, pushed.used + 1, Len(chunk))
                  /\ decoded_bytes' = SubSeq(dest(decoder'), 1, pushed.parsed_size)
                  /\ frames' = frames + 1
                  /\ UNCHANGED outcome
       /\ UNCHANGED <<buf, fbb, cobs_encoded, written, response, rt>>

\* An iteration of the receive loop whose read returns a chunk of
\* 0..PerReadBufferLen bytes: push it into the decoder, panic on a decoding
\* error, break with the decoded slice when a frame is complete, else loop.
ReadPushes(t, check_pc) ==
    \E chunk \in SeqUpTo(Byte, PerReadBufferLen) :
       LET pushed == push(decoder, chunk) IN
       /\ bytes_read' = Len(chunk)
       /\ decoder' = pushed.decoder
       /\ decode_state' = pushed.res
       /\ encoded' = push(encoded, SubSeq(chunk, 1, pushed.used)).decoder
       /\ CASE pushed.res = "Err" ->
                  /\ pc' = "panicked"
                  /\ outcome' = [outcome EXCEPT ![t] =
                                    Panic("COBS-decoding error.", None)]
                  /\ UNCHANGED <<decoded_bytes, frames, dropped>>
            [] pushed.res = "None" ->
                  UNCHANGED <<pc, outcome, decoded_bytes, frames, dropped>>
            [] pushed.res = "Some" ->
                  /\ pc' = check_pc
                  /\ decoded_bytes' = SubSeq(dest(decoder'), 1, pushed.parsed_size)
                  /\ dropped' = SubSeq(chunk, pushed.used + 1, Len(chunk))
                  /\ frames' = frames + 1
                  /\ UNCHANGED outcome
       /\ UNCHANGED <<buf, fbb, cobs_encoded, written, response, rt>>

\* Mutant: the data request is built and written right behind the
\* configuration request, before any response is read.
WriteConfiguration_Pipelined ==
    /\ pc = "write_configuration"
    /\ WriteAll(Configuration, "build_data")

\* Lines 88-90.
WriteConfiguration ==
    /\ pc = "write_configuration"
    /\ WriteAll(Configuration, "receive_configuration")

\* Lines 94-108.
ReceiveConfiguration ==
    /\ pc = "receive_configuration"
    /\ \/ ReadFails(Configuration)
       \/ ReadPushes(Configuration, "check_configuration")

\* Mutant: a configuration response that is not a success is recorded, and
\* the program goes on to the data request all the same.
CheckConfiguration_FailureNotFatal ==
    /\ pc = "check_configuration"
    /\ LET parsed == root_as_response_packet(decoded_bytes)
           result == IF parsed.ok
                     THEN ClassifyConfiguration(parsed)
                     ELSE Panic("Failed to parse bytes as response packet after configuration request.", None)
       IN /\ response' = [response EXCEPT ![Configuration] = parsed]
          /\ outcome' = [outcome EXCEPT ![Configuration] = result]
          /\ pc' = "build_data"
    /\ UNCHANGED <<buf, dropped, fbb, cobs_encoded, written, decoder, bytes_read, decode_state,
                   decoded_bytes, frames, encoded, rt>>

\* Lines 111-134: parse the decoded bytes and check the response.
CheckConfiguration ==
    /\ pc = "check_configuration"
    /\ LET parsed == root_as_response_packet(decoded_bytes)
           result == IF parsed.ok
                     THEN ClassifyConfiguration(parsed)
                     ELSE Panic("Failed to parse bytes as response packet after configuration request.", None)
       IN /\ response' = [response EXCEPT ![Configuration] = parsed]
          /\ outcome' = [outcome EXCEPT ![Configuration] = result]
          /\ pc' = IF result.status = "ok" THEN "build_data" ELSE "panicked"
    /\ UNCHANGED <<buf, dropped, fbb, cobs_encoded, written, decoder, bytes_read, decode_state,
                   decoded_bytes, frames, encoded, rt>>

\* Mutant: the builder is not reset before the second packet is built.
BuildDataRequest_NoReset ==
    /\ pc = "build_data"
    /\ fbb' = fbb_finish(fbb, data_request_packet)
    /\ cobs_encoded' = frame_of(fbb')
    /\ pc' = "write_data"
    /\ UNCHANGED <<buf, dropped, written, decoder, bytes_read, decode_state, decoded_bytes,
                   frames, encoded, response, outcome, rt>>

\* Lines 138-180: reset the builder, build the DataRequest packet, finish,
\* COBS-encode and terminate it.
BuildDataRequest ==
    /\ pc = "build_data"
    /\ fbb' = fbb_finish(fbb_reset(fbb), data_request_packet)
    /\ cobs_encoded' = frame_of(fbb')
    /\ pc' = "write_data"
    /\ UNCHANGED <<buf, dropped, written, decoder, bytes_read, decode_state, decoded_bytes, frames, encoded, response,
                   outcome, rt>>

\* Mutant: the second receive loop goes on with the decoder and decode
\* buffer of the first.
WriteData_DecoderReused ==
    /\ pc = "write_data"
    /\ written' = Append(written, cobs_encoded)
    /\ \/ /\ pc' = "receive_data"
          /\ bytes_read' = 0
          /\ decode_state' = "None"
          /\ encoded' = CobsDecoder_new(DecodeBufferLen + 1)
          /\ UNCHANGED outcome
       \/ /\ pc' = "panicked"
          /\ outcome' = [outcome EXCEPT ![Data] =
                            Panic("Failed to write configuration packet.", None)]
          /\ UNCHANGED <<bytes_read, decode_state, encoded>>
    /\ UNCHANGED <<buf, dropped, fbb, cobs_encoded, decoder, decoded_bytes, frames, response, rt>>

\* Mutant: the bytes that the first receive loop left unpushed are pushed
\* into the decoder of the second.
WriteData_DroppedDelivered ==
    /\ pc = "write_data"
    /\ buf = <<>>
    /\ written' = Append(written, cobs_encoded)
    /\ \/ /\ pc' = "receive_data"
          /\ decoder' = push(CobsDecoder_new(DecodeBufferLen), dropped).decoder
          /\ bytes_read' = 0
          /\ decode_state' = "None"
          /\ encoded' = CobsDecoder_new(DecodeBufferLen + 1)
          /\ dropped' = <<>>
          /\ UNCHANGED outcome
       \/ /\ pc' = "panicked"
          /\ outcome' = [outcome EXCEPT ![Data] =
                            Panic("Failed to write configuration packet.", None)]
          /\ UNCHANGED <<decoder, bytes_read, decode_state, encoded, dropped>>
    /\ UNCHANGED <<buf, fbb, cobs_encoded, decoded_bytes, frames, response, rt>>

\* Lines 182-184.
WriteData ==
    /\ pc = "write_data"
    /\ WriteAll(Data, "receive_data")

\* Lines 187-201.
ReceiveData ==
    /\ pc = "receive_data"
    /\ \/ ReadFails(Data)
       \/ ReadPushes(Data, "check_data")

\* Lines 203-229: parse the decoded bytes, check the response, print the
\* bytes read.
CheckData ==
    /\ pc = "check_data"
    /\ LET parsed == root_as_response_packet(decoded_bytes)
           result == IF parsed.ok
                     THEN ClassifyData(parsed)
                     ELSE Panic("Failed to parse bytes as response packet after data request.", None)
       IN /\ response' = [response EXCEPT ![Data] = parsed]
          /\ outcome' = [outcome EXCEPT ![Data] = result]
          /\ pc' = IF result.status = "ok" THEN "done" ELSE "panicked"
    /\ UNCHANGED <<buf, dropped, fbb, cobs_encoded, written, decoder, bytes_read, decode_state,
                   decoded_bytes, frames, encoded, rt>>

Next ==
    \/ BuildConfigurationRequest
    \/ WriteConfiguration
    \/ ReceiveConfiguration
    \/ CheckConfiguration
    \/ BuildDataRequest
    \/ WriteData
    \/ ReceiveData
    \/ CheckData

Spec == Init /\ [][Next]_vars

\* The program keeps running: a step that is possible is eventually taken.
\* Nothing is assumed of the transport.
LiveSpec == Spec /\ WF_vars(Next)

\* ------------------------------------------------- framing round trip

Min(a, b) == IF a <= b THEN a ELSE b

\* The chunkings of a frame: byte by byte, seven bytes at a time, and the
\* whole frame at once.  `size` 0 stands for the whole frame.
ChunkSize(size, frame) == IF size = 0 THEN Len(frame) ELSE size

\* A payload within the decoder's capacity and a chunking are chosen; the
\* main program does not run.
RoundTripInit ==
    /\ pc = "round_trip"
    /\ fbb = <<>>
    /\ cobs_encoded = <<>>
    /\ written = <<>>
    /\ buf = <<>>
    /\ dropped = <<>>
    /\ decoder = CobsDecoder_new(DecodeBufferLen)
    /\ bytes_read = 0
    /\ decode_state = "None"
    /\ decoded_bytes = <<>>
    /\ frames = 0
    /\ encoded = CobsDecoder_new(DecodeBufferLen + 1)
    /\ response = [t \in {Configuration, Data} |-> DecodeError]
    /\ outcome = [t \in {Configuration, Data} |-> Pending]
    /\ \E payload \in SeqUpTo(Byte, MaxPayloadLen), size \in {0, 1, 7} :
          rt = [RoundTripOff EXCEPT !.phase = "chosen", !.payload = payload,
                                    !.size = size]

\* encode_vec and the terminator push, as for a request.
RoundTripEncode ==
    /\ rt.phase = "chosen"
    /\ rt' = [rt EXCEPT !.phase = "feeding", !.frame = frame_of(rt.payload)]
    /\ UNCHANGED <<buf, dropped, pc, fbb, cobs_encoded, written, decoder, bytes_read,
                   decode_state, decoded_bytes, frames, encoded, response, outcome>>

\* The next chunk of the frame is pushed into the decoder; a completion
\* report is counted and the slice dest()[..parsed_size] taken, as in the
\* receive loop.
RoundTripPush ==
    /\ rt.phase = "feeding"
    /\ rt.pos < Len(rt.frame)
    /\ LET last == Min(rt.pos + ChunkSize(rt.size, rt.frame), Len(rt.frame))
           chunk == SubSeq(rt.frame, rt.pos + 1, last)
           pushed == push(rt.decoder, chunk)
       IN rt' = [rt EXCEPT
                   !.pos = last,
                   !.decoder = pushed.decoder,
                   !.failed = @ \/ pushed.res = "Err",
                   !.reports = IF pushed.res = "Some" THEN @ + 1 ELSE @,
                   !.report_at = IF pushed.res = "Some"
                                 THEN rt.pos + pushed.used ELSE @,
                   !.parsed_size = IF pushed.res = "Some"
                                   THEN pushed.parsed_size ELSE @,
                   !.parsed = IF pushed.res = "Some"
                              THEN SubSeq(dest(pushed.decoder), 1, pushed.parsed_size)
                              ELSE @]
    /\ UNCHANGED <<buf, dropped, pc, fbb, cobs_encoded, written, decoder, bytes_read,
                   decode_state, decoded_bytes, frames, encoded, response, outcome>>

RoundTripNext == RoundTripEncode \/ RoundTripPush

RoundTripSpec == RoundTripInit /\ [][RoundTripNext]_vars

\* ------------------------------------------------------------- claims

Transactions == {Configuration, Data}

\* The response kind each transaction's match accepts.
ExpectedKind(t) ==
    IF t = Configuration
    THEN ResponsePacketContents_ConfigurationResponse
    ELSE ResponsePacketContents_DataResponse

\* The failure reason of the error taxonomy that a panic message reports.
FailureReason(o) ==
    CASE o.status # "panic" -> "none"
      [] o.msg = "Received error response from BusPirate" -> "ProtocolError"
      [] o.msg = "Configuration response error" -> "DomainError"
      [] o.msg = "Unexpected response contents type" -> "UnexpectedKindError"
      [] o.msg = "COBS-decoding error." -> "FramingError"
      [] o.msg = "Failed to parse bytes as response packet after configuration request."
            -> "SchemaDecodeError"
      [] o.msg = "Failed to parse bytes as response packet after data request."
            -> "SchemaDecodeError"
      [] o.msg = "Failed to read from the serial port." -> "TransportError"
      [] o.msg = "Failed to write configuration packet." -> "TransportError"
      [] OTHER -> "crash"

\* Transaction t parsed a response whose discriminant is k.
Parsed(t, k) == response[t].ok /\ response[t].contents_type = k

\* C1: in either transaction, a parsed response whose discriminant is
\* ErrorResponse ends the transaction in a protocol-level failure carrying
\* the ErrorResponse's error description; never in success, a domain failure
\* or an unexpected-kind failure.
C1_ErrorResponseIsProtocolFailure ==
    \A t \in Transactions :
       Parsed(t, ResponsePacketContents_ErrorResponse) =>
          /\ outcome[t].status = "panic"
          /\ FailureReason(outcome[t]) = "ProtocolError"
          /\ outcome[t].detail = response[t].contents[1].error

\* C1 witness: the data transaction received an ErrorResponse with a
\* description and has been classified.
C1_Witness ==
    /\ Parsed(Data, ResponsePacketContents_ErrorResponse)
    /\ response[Data].contents[1].error # None
    /\ outcome[Data].status = "panic"

\* C2: a parsed response of the expected kind whose embedded error is
\* present ends the transaction in a domain-level failure carrying exactly
\* that error, and no payload is returned.
C2_EmbeddedErrorIsDomainFailure ==
    \A t \in Transactions :
       (Parsed(t, ExpectedKind(t)) /\ response[t].contents[1].error # None) =>
          /\ outcome[t].status = "panic"
          /\ FailureReason(outcome[t]) = "DomainError"
          /\ outcome[t].detail = response[t].contents[1].error
          /\ outcome[t].data = None

\* C2 witness: the configuration transaction received a
\* ConfigurationResponse with an embedded error and has been classified.
C2_Witness ==
    /\ Parsed(Configuration, ResponsePacketContents_ConfigurationResponse)
    /\ response[Configuration].contents[1].error = Some(2)
    /\ outcome[Configuration].status = "panic"

\* C3: a parsed response of the expected kind without an embedded error
\* makes the transaction succeed, and the data transaction returns exactly
\* the data_read sequence, whatever its length.
C3_NoErrorIsSuccess ==
    \A t \in Transactions :
       (Parsed(t, ExpectedKind(t)) /\ response[t].contents[1].error = None) =>
          /\ outcome[t].status = "ok"
          /\ t = Data => outcome[t].data = response[t].contents[1].data_read

\* C4: a parsed response whose discriminant is neither ErrorResponse nor the
\* expected kind ends the transaction in an unexpected-response-kind failure,
\* also when it carries no embedded error.
C4_MismatchedKindIsFailure ==
    \A t \in Transactions :
       (/\ response[t].ok
        /\ response[t].contents_type # ResponsePacketContents_ErrorResponse
        /\ response[t].contents_type # ExpectedKind(t)) =>
          /\ outcome[t].status = "panic"
          /\ FailureReason(outcome[t]) = "UnexpectedKindError"

\* C4 witness: a DataResponse without an embedded error answered the
\* ConfigurationRequest.
C4_Witness ==
    /\ Parsed(Configuration, ResponsePacketContents_DataResponse)
    /\ response[Configuration].contents[1].error = None
    /\ outcome[Configuration].status = "panic"

\* C5: for a parsed response of the expected kind, the transaction succeeds
\* if and only if the embedded error is absent; no other field decides.
C5_ErrorAbsenceIsSoleSuccessSignal ==
    \A t \in Transactions :
       Parsed(t, ExpectedKind(t)) =>
          (outcome[t].status = "ok" <=> response[t].contents[1].error = None)


\* C6: the second request is written only after the first response has been
\* completely received (its decoder reported a completed frame), parsed and
\* classified; a request is never written while the response to the
\* previous one is still outstanding.
C6_OneRequestInFlight ==
    /\ Len(written) <= frames + 1
    /\ Len(written) >= 2 =>
          /\ response[Configuration].ok
          /\ outcome[Configuration].status # "pending"

\* C6 witness: the DataRequest frame has been handed to the transport.
C6_Witness == Len(written) = 2 /\ pc = "receive_data"

Terminated == pc \in {"done", "panicked"}

InReceive(t) ==
    pc = IF t = Configuration THEN "receive_configuration" ELSE "receive_data"

CheckPc(t) == IF t = Configuration THEN "check_configuration" ELSE "check_data"

\* A read of the receive loop fails.
ReadFailure == \E t \in Transactions : InReceive(t) /\ ReadFails(t)

\* C7 as claimed: whatever the transport's reads return, the program ends
\* in success or in a failure.
C7_AlwaysTerminates == <>Terminated

\* C7 as amended: the program ends in success or in a failure unless the
\* transport's reads keep returning without an error for ever; a read that
\* fails ends the transaction.
C7_TerminatesIfReadsEventuallyFail == WF_vars(ReadFailure) => <>Terminated

\* C7 witness: a read of the data transaction's receive loop failed and
\* the transaction ended as a transport failure.
C7_Witness ==
    /\ pc = "panicked"
    /\ outcome[Data].msg = "Failed to read from the serial port."
    /\ FailureReason(outcome[Data]) = "TransportError"

IsPrefix(s, t) == Len(s) <= Len(t) /\ SubSeq(t, 1, Len(s)) = s

\* C8: a transaction leaves the receive loop for parsing exactly when the
\* decoder reports a completed frame, which is when it consumed the
\* terminator.  A read that does not complete the frame, a read of zero
\* bytes included, neither completes nor fails the transaction: the loop
\* goes round again with the same decoder, whose decoded bytes it extends.
C8_ReceiveRedrivenUntilComplete ==
    [][\A t \in Transactions :
         (InReceive(t) /\ outcome'[t].msg # "Failed to read from the serial port.") =>
            /\ pc' = CheckPc(t) <=> decode_state' = "Some"
            /\ decode_state' = "Some" =>
                  /\ frames' = frames + 1
                  /\ decoder'.state = Idle
                  /\ bytes_read' >= 1
            /\ decode_state' = "None" =>
                  /\ pc' = pc
                  /\ outcome' = outcome
                  /\ decoder'.cap = decoder.cap
                  /\ IsPrefix(decoder.dest, decoder'.dest)
            /\ bytes_read' = 0 =>
                  /\ pc' = pc
                  /\ outcome' = outcome
                  /\ decoder' = decoder]_vars

\* C8 witness: in the receive loop, after part of a frame was decoded, a
\* read returned zero bytes and the loop is about to read again.
C8_Witness ==
    /\ InReceive(Configuration)
    /\ bytes_read = 0
    /\ Len(decoder.dest) >= 2
    /\ outcome[Configuration].status = "pending"

\* C9: a payload within the decoder's capacity, framed with encode_vec and
\* one terminating zero and pushed into a fresh decoder byte by byte, seven
\* bytes at a time or at once, is reported complete exactly once, at the
\* terminator, with the parsed bytes and parsed size those of the payload.
C9_FramingRoundTrip ==
    rt.phase = "feeding" =>
       /\ ~rt.failed
       /\ rt.pos < Len(rt.frame) => rt.reports = 0
       /\ rt.pos = Len(rt.frame) =>
             /\ rt.reports = 1
             /\ rt.report_at = Len(rt.frame)
             /\ rt.parsed = rt.payload
             /\ rt.parsed_size = Len(rt.payload)

\* C9 witness: a payload holding zero and nonzero bytes whose frame is
\* longer than seven bytes went through in chunks of seven.
C9_Witness ==
    /\ rt.phase = "feeding"
    /\ rt.size = 7
    /\ Len(rt.frame) > 7
    /\ rt.pos = Len(rt.frame)
    /\ \E i \in 1..Len(rt.payload) : rt.payload[i] = 0
    /\ \E i \in 1..Len(rt.payload) : rt.payload[i] # 0
    /\ rt.reports = 1

\* The zero byte occurs in the frame exactly once, as its last byte.
SentinelOnlyLast(frame) ==
    /\ Len(frame) >= 1
    /\ \A i \in 1..Len(frame) : frame[i] = 0 <=> i = Len(frame)

\* C10: every frame handed to the transport write contains the zero byte
\* exactly once, as its last byte, though the serialized request holds
\* zero bytes.
C10_SentinelOnlyTerminates ==
    /\ \A i \in 1..Len(written) : SentinelOnlyLast(written[i])
    /\ pc \in {"write_configuration", "write_data"} =>
          /\ SentinelOnlyLast(cobs_encoded)
          /\ \E i \in 1..Len(fbb) : fbb[i] = 0

\* C10 witness: both frames have been written.
C10_Witness ==
    /\ Len(written) = 2
    /\ written[1] # written[2]
    /\ \E i \in 1..Len(fbb) : fbb[i] = 0
    /\ written[2] = cobs_encoded


\* ------------------------------------------------------------------ C11

\* C11: decoder overflow is a failure, never a truncation.  The decoder
\* never holds more than DecodeBufferLen decoded bytes and no decoded slice
\* is longer than that; a transaction that goes on to parsing hands over
\* exactly the bytes its frame encoded; and once the bytes pushed encode
\* more than DecodeBufferLen bytes the push has reported an error and the
\* transaction has failed as a framing error.
C11_OverflowIsFailure ==
    /\ Len(decoder.dest) <= DecodeBufferLen
    /\ Len(decoded_bytes) <= DecodeBufferLen
    /\ \A t \in Transactions :
          pc = CheckPc(t) =>
             /\ decode_state = "Some"
             /\ decoded_bytes = encoded.dest
    /\ Len(encoded.dest) > DecodeBufferLen =>
          /\ decode_state = "Err"
          /\ pc = "panicked"
          /\ \E t \in Transactions :
                /\ FailureReason(outcome[t]) = "FramingError"
                /\ \A u \in Transactions : u # t => outcome[u].status # "panic"

\* C11 witness: the response of the data transaction encoded one byte more
\* than the decode buffer holds, and the transaction failed.
C11_Witness ==
    /\ Len(encoded.dest) = DecodeBufferLen + 1
    /\ Len(decoder.dest) = DecodeBufferLen
    /\ pc = "panicked"
    /\ FailureReason(outcome[Data]) = "FramingError"


\* ------------------------------------------------------------------ C12

\* The transactions whose write_all has been called.
Attempted(t) ==
    IF t = Configuration
    THEN /\ pc # "build_configuration"
         /\ pc = "write_configuration" => buf # <<>>
    ELSE \/ pc \in {"receive_data", "check_data", "done"}
         \/ pc = "write_data" /\ buf # <<>>
         \/ pc = "panicked" /\ outcome[Data].status = "panic"

C12_NoStepAfterFailure ==
    /\ Len(written) = Cardinality({t \in Transactions : Attempted(t)})
    /\ (\E t \in Transactions : outcome[t].status = "panic") =>
          /\ pc = "panicked"
          /\ ~ENABLED Next


\* ------------------------------------------------------------------ C13

WritePc(t) == IF t = Configuration THEN "write_configuration" ELSE "write_data"

\* Why transaction t fails in this step, told from where the program is and
\* what it holds, not from what it reports: a write or a read that fails is
\* a transport error, a push that fails a framing error, decoded bytes that
\* do not parse a schema decode error, a parsed ErrorResponse a protocol
\* error, any other kind than the expected one an unexpected kind, the
\* expected kind with an embedded error a domain error.  Anything else is
\* no reason of the taxonomy.
Cause(t) ==
    IF pc = WritePc(t) THEN "TransportError"
    ELSE IF InReceive(t)
    THEN IF decode_state' = "Err" THEN "FramingError" ELSE "TransportError"
    ELSE LET parsed == root_as_response_packet(decoded_bytes) IN
         IF ~parsed.ok THEN "SchemaDecodeError"
         ELSE IF parsed.contents_type = ResponsePacketContents_ErrorResponse
         THEN "ProtocolError"
         ELSE IF parsed.contents_type # ExpectedKind(t)
         THEN "UnexpectedKindError"
         ELSE IF parsed.contents[1].error # None
         THEN "DomainError"
         ELSE "crash"

\* C13: failure reasons are distinguishable.  In either transaction the
\* panic message a failing step reports names the reason the step failed
\* for: FailureReason, which looks at the message alone, gives that reason
\* back.  Two executions that fail for different reasons therefore never
\* report the same message.
C13_ReasonsDistinguishable ==
    [][\A t \in Transactions :
         (outcome[t].status # "panic" /\ outcome'[t].status = "panic") =>
            /\ pc' = "panicked"
            /\ FailureReason(outcome'[t]) = Cause(t)]_vars

\* C13 witness: the data transaction failed on decoded bytes that do not
\* parse, and said so.
C13_Witness ==
    /\ pc = "panicked"
    /\ frames = 2
    /\ ~response[Data].ok
    /\ FailureReason(outcome[Data]) = "SchemaDecodeError"


\* ------------------------------------------------------------------ C14

\* The reasons of the error taxonomy.
Taxonomy ==
    {"FramingError", "SchemaDecodeError", "TransportError", "ProtocolError",
     "DomainError", "UnexpectedKindError"}

\* C14: malformed input never crashes parsing and classification.  Whatever
\* bytes the decoder delivered as a completed frame, a transaction that has
\* parsed and classified them ended in success or in a failure of the
\* taxonomy; bytes that do not parse ended it as a schema decode error, and
\* no payload accessor of the classification panicked.
C14_MalformedNeverCrashes ==
    \A t \in Transactions :
       outcome[t] # Pending =>
          /\ outcome[t].status = "ok" \/ FailureReason(outcome[t]) \in Taxonomy
          /\ outcome[t].msg # "called Option::unwrap() on a None value"
          /\ (frames >= (IF t = Configuration THEN 1 ELSE 2) /\ ~response[t].ok) =>
                FailureReason(outcome[t]) = "SchemaDecodeError"


\* ------------------------------------------------------------------ C15

\* C15: a fresh decoder per frame.  Once a decoder has reported a completed
\* frame nothing is pushed into it: it stays as it is until the next
\* receive loop replaces it.  Each receive loop is entered with a decoder in
\* its initial state and an empty destination; and the bytes the data
\* transaction hands to parsing are what the bytes read in the data
\* transaction encode, with no byte of the first response among them.
C15_FreshDecoderPerFrame ==
    [][/\ (decode_state = "Some" /\ decoder' # decoder) =>
             /\ pc = "write_data"
             /\ pc' = "receive_data"
       /\ \A t \in Transactions :
             (~InReceive(t) /\ InReceive(t)') =>
                /\ decoder' = [dest |-> <<>>, state |-> Idle, cap |-> DecodeBufferLen]
                /\ decode_state' = "None"
       /\ pc' = "check_data" => decoded_bytes' = encoded'.dest]_vars

\* C15 witness: after a first response of two bytes, the second decoder
\* completed a frame of one byte.
C15_Witness ==
    /\ pc = "check_data"
    /\ frames = 2
    /\ response[Configuration].ok
    /\ Len(decoded_bytes) = 1


\* ------------------------------------------------------------------ C16

\* The data request has been built.
DataRequestBuilt ==
    \/ pc \in {"write_data", "receive_data", "check_data", "done"}
    \/ pc = "panicked" /\ outcome[Data].status = "panic"

\* C16: the reused encode buffer is reset between the requests.  From the
\* moment the data request is built, the builder holds exactly the bytes
\* that an empty builder yields for the DataRequest packet, the frame to be
\* written is the framing of those bytes, and so is the second frame handed
\* to the transport: no byte of the ConfigurationRequest is in it.
C16_EncodeBufferReset ==
    DataRequestBuilt =>
       /\ fbb = fbb_finish(<<>>, data_request_packet)
       /\ Len(fbb) = 3 + Len(data_request_packet.contents.fields)
       /\ fbb[3] = RequestPacketContents_DataRequest
       /\ cobs_encoded = frame_of(fbb_finish(<<>>, data_request_packet))
       /\ Attempted(Data) => written[2] = frame_of(fbb_finish(<<>>, data_request_packet))

\* C16 witness: the second frame has been handed to the transport whole,
\* after a first frame that held the ConfigurationRequest.
C16_Witness ==
    /\ pc = "receive_data"
    /\ Len(written) = 2
    /\ written[1] = frame_of(fbb_finish(<<>>, configuration_request_packet))
    /\ written[2] = frame_of(fbb)


\* ------------------------------------------------------------------ C17

\* The serialized packet a written frame carries: what a decoder with room
\* enough makes of the frame.
Unframed(frame) == push(CobsDecoder_new(Len(frame)), frame)

\* The payload variant a request discriminant names.
RequestKind(discriminant) ==
    CASE discriminant = RequestPacketContents_ConfigurationRequest -> "ConfigurationRequest"
      [] discriminant = RequestPacketContents_DataRequest -> "DataRequest"
      [] OTHER -> "NONE"

\* The packet of the i-th write_all of an execution.
RequestOf(i) == IF i = 1 THEN configuration_request_packet ELSE data_request_packet

\* C17: every request handed to the transport is a whole frame that carries
\* version major 2, minor 0, then a discriminant that names the variant of
\* the one payload that follows it: the ConfigurationRequest first, the
\* DataRequest second, and nothing before or between them.
C17_VersionAndDiscriminant ==
    /\ Len(written) <= 2
    /\ \A i \in 1..Len(written) :
          LET unframed == Unframed(written[i])
              bytes == unframed.decoder.dest
          IN /\ unframed.res = "Some"
             /\ unframed.used = Len(written[i])
             /\ Len(bytes) >= 3
             /\ bytes[1] = 2
             /\ bytes[2] = 0
             /\ RequestKind(bytes[3]) = RequestOf(i).contents.kind
             /\ RequestKind(bytes[3]) = IF i = 1 THEN "ConfigurationRequest"
                                                 ELSE "DataRequest"
             /\ SubSeq(bytes, 4, Len(bytes)) = RequestOf(i).contents.fields

\* C17 witness: both requests have been written, the second as a
\* DataRequest of version 2.0.
C17_Witness ==
    /\ Len(written) = 2
    /\ pc = "done"
    /\ SubSeq(Unframed(written[2]).decoder.dest, 1, 3) =
          <<2, 0, RequestPacketContents_DataRequest>>


\* ------------------------------------------------------------------ C18

\* C18: the data transfer is gated on a successful configuration.  The
\* program builds and writes the DataRequest, and reports data, only when
\* the configuration transaction ended in success on a ConfigurationResponse
\* without an embedded error; when the configuration transaction failed,
\* only the configuration frame has been handed to the transport, the data
\* transaction never started and the program has stopped.
C18_DataGatedOnConfiguration ==
    /\ (DataRequestBuilt \/ pc = "build_data" \/ Len(written) >= 2
            \/ outcome[Data] # Pending) =>
          /\ outcome[Configuration] = Success(None)
          /\ Parsed(Configuration, ResponsePacketContents_ConfigurationResponse)
          /\ response[Configuration].contents[1].error = None
    /\ outcome[Configuration].status = "panic" =>
          /\ pc = "panicked"
          /\ Len(written) = 1
          /\ written[1] = frame_of(fbb_finish(<<>>, configuration_request_packet))
          /\ cobs_encoded = written[1]
          /\ outcome[Data] = Pending
          /\ ~ENABLED (WriteData \/ BuildDataRequest)

\* C18 witness: the configuration response carried an embedded error; the
\* program stopped with the configuration frame alone written.
C18_Witness ==
    /\ FailureReason(outcome[Configuration]) = "DomainError"
    /\ pc = "panicked"
    /\ Len(written) = 1
    /\ outcome[Data] = Pending


\* ------------------------------------------------------------------ C19

\* C19: bytes are never carried across transactions.  Whatever the last
\* read of the first transaction returned behind the terminator, the
\* second receive loop starts with an empty decoder, and all through the
\* second transaction its decoder is in the state and holds the bytes that
\* the chunks read since the second request was written put it in.
C19_NoBytesAcrossTransactions ==
    [][/\ (pc = "write_data" /\ pc' = "receive_data") =>
             /\ decoder' = CobsDecoder_new(DecodeBufferLen)
             /\ bytes_read' = 0
       /\ pc' \in {"receive_data", "check_data"} =>
             /\ decoder'.dest = encoded'.dest
             /\ decoder'.state = encoded'.state
       /\ (pc = "receive_data" /\ pc' = "check_data") =>
             decoded_bytes' = encoded'.dest]_vars

\* C19 witness: the read that completed the first response returned a
\* nonzero byte behind the terminator; the data request is about to be
\* written.
C19_Witness ==
    /\ pc = "write_data"
    /\ outcome[Configuration].status = "ok"
    /\ Len(dropped) = 1
    /\ dropped[1] # 0

====
